---- MODULE Spec2Model ----
(***************************************************************************)
(* Electric-field simulation: the field of point charges (charge.py,       *)
(* physics.py), the motion integrator of charged bodies (particle.py,      *)
(* physics.py), the entity composition (entity.py, objects.py) and the     *)
(* frame loop of the simulation window (simulation.py, main.py).           *)
(*                                                                         *)
(* Numbers.  The program computes in binary floating point.  A number is   *)
(* modelled as an integer count of quanta of 2^-FracBits, and the result   *)
(* of every arithmetic operation is rounded to the nearest value with      *)
(* MantBits significant bits, ties to even.  So sums, products, quotients  *)
(* and roots round as they do in the program (addition is commutative but  *)
(* not associative, small results underflow to zero).  Infinities, NaN and *)
(* exponent overflow are not modelled.  Physical magnitudes are expressed  *)
(* in model units: the SI values of the source (1e-31 kg, 1e-19 C, 1e5)    *)
(* have no representation at this precision.                               *)
(***************************************************************************)
EXTENDS Integers, Sequences, FiniteSets, TLC

\* ------------------------------------------------------------------ bounds
\* Number of fraction bits of a modelled number (the quantum is 2^-FracBits).
FracBits == 4
\* Number of significant bits kept by every arithmetic operation.
MantBits == 8

Scale == 2 ^ FracBits

\* ------------------------------------------------- floating-point numbers
Abs(x) == IF x < 0 THEN -x ELSE x

Sgn(x) == IF x < 0 THEN -1 ELSE IF x > 0 THEN 1 ELSE 0

Min(a, b) == IF a < b THEN a ELSE b

\* The element of a set of one element.
The(S) == CHOOSE x \in S : TRUE

\* The integer n, in model units, as a number.
Num(n) == n * Scale

\* The binary exponent of the spacing of representable numbers at magnitude q.
RECURSIVE Expo(_, _)
Expo(q, e) == IF q < 2 ^ MantBits THEN e ELSE Expo(q \div 2, e + 1)

\* n / d (n >= 0, d > 0) rounded to the nearest integer, ties to even.
RoundHalfEven(n, d) ==
    LET q == n \div d
        r == n % d
    IN  IF 2 * r > d \/ (2 * r = d /\ q % 2 = 1) THEN q + 1 ELSE q

\* The rational n / d (d > 0) of quanta, rounded to a representable number.
Fl(n, d) ==
    LET a == Abs(n)
        u == 2 ^ Expo(a \div d, 0)
    IN  Sgn(n) * u * RoundHalfEven(a, d * u)

\* The spacing of representable numbers at magnitude x.
Ulp(x) == 2 ^ Expo(Abs(x), 0)

FAdd(a, b) == Fl(a + b, 1)

FSub(a, b) == Fl(a - b, 1)

FMul(a, b) == Fl(a * b, Scale)

\* a / b for b # 0 (the callers model the ZeroDivisionError of b = 0).
FDiv(a, b) == Fl(Sgn(b) * a * Scale, Abs(b))

\* The greatest r in lo..hi with r * r <= n, by bisection.
RECURSIVE Bisect(_, _, _)
Bisect(n, lo, hi) ==
    IF lo = hi THEN lo
    ELSE LET mid == (lo + hi + 1) \div 2
         IN  IF mid * mid <= n THEN Bisect(n, mid, hi) ELSE Bisect(n, lo, mid - 1)

\* floor of the square root of the natural number n.
ISqrt(n) == Bisect(n, 0, IF n < 2 ^ 30 THEN Min(n, 2 ^ 15) ELSE 46340)

\* math.sqrt(a) for a >= 0.
FSqrt(a) ==
    LET n == a * Scale
        r == ISqrt(n)
    IN  Fl(IF r * r + r < n THEN r + 1 ELSE r, 1)

\* math.pi, rounded to a representable number.
Pi == Fl(355 * Scale, 113)

\* ------------------------------------------------ coordinates.py: vectors
Point2D(x, y) == [x |-> x, y |-> y]

Vector2D(x, y) == [x |-> x, y |-> y]

ZeroDivisionError == [raised |-> "ZeroDivisionError"]

IsRaised(v) == "raised" \in DOMAIN v

\* Vector2D.normalize dividing by the squared magnitude.
normalize_BySquare(v) ==
    LET square == FAdd(FMul(v.x, v.x), FMul(v.y, v.y))
    IN  IF FSqrt(square) > 0
        THEN Vector2D(FDiv(v.x, square), FDiv(v.y, square))
        ELSE Vector2D(0, 0)

\* Vector2D.normalize
normalize(v) ==
    LET magnitude == FSqrt(FAdd(FMul(v.x, v.x), FMul(v.y, v.y)))
    IN  IF magnitude > 0
        THEN Vector2D(FDiv(v.x, magnitude), FDiv(v.y, magnitude))
        ELSE Vector2D(0, 0)

\* Vector2D.from_points
from_points(p1, p2) == Vector2D(FSub(p2.x, p1.x), FSub(p2.y, p1.y))

\* Vector2D.__mul__
VecMul(v, scalar) == Vector2D(FMul(v.x, scalar), FMul(v.y, scalar))

\* Vector2D.__rmul__
VecRMul(scalar, v) == VecMul(v, scalar)

\* Vector2D.__truediv__ refusing every scalar that is not positive.
VecDiv_RefusesNegative(v, scalar) ==
    IF scalar <= 0
    THEN ZeroDivisionError
    ELSE Vector2D(FDiv(v.x, scalar), FDiv(v.y, scalar))

\* Vector2D.__truediv__
VecDiv(v, scalar) ==
    IF scalar = 0
    THEN ZeroDivisionError
    ELSE Vector2D(FDiv(v.x, scalar), FDiv(v.y, scalar))

\* Vector2D.__add__
VecAdd(v, other) == Vector2D(FAdd(v.x, other.x), FAdd(v.y, other.y))

\* Vector2D.__sub__
VecSub(v, other) == Vector2D(FSub(v.x, other.x), FSub(v.y, other.y))

\* ------------------------------------------------------- charge.py: Charge
\* Charge.__init__: k is computed once, from the permittivity.
Charge(value, position, permittivity) ==
    LET denom == FMul(FMul(Num(4), Pi), permittivity)
    IN  IF denom = 0
        THEN ZeroDivisionError
        ELSE [value |-> value, position |-> position,
              permittivity |-> permittivity, k |-> FDiv(Num(1), denom)]

\* Charge.calculate_field without the test of the squared distance: the
\* division by a zero squared distance raises.
Charge_calculate_field_NoGuard(self, other_position) ==
    LET direction == from_points(self.position, other_position)
        distance_squared == FAdd(FMul(direction.x, direction.x),
                                 FMul(direction.y, direction.y))
        unit_vector == normalize(direction)
        field_magnitude == FDiv(FMul(self.k, self.value), distance_squared)
    IN  IF distance_squared = 0
        THEN ZeroDivisionError
        ELSE VecRMul(field_magnitude, unit_vector)

\* Charge.calculate_field
Charge_calculate_field(self, other_position) ==
    LET direction == from_points(self.position, other_position)
        distance_squared == FAdd(FMul(direction.x, direction.x),
                                 FMul(direction.y, direction.y))
        unit_vector == normalize(direction)
        field_magnitude == FDiv(FMul(self.k, self.value), distance_squared)
    IN  IF distance_squared = 0
        THEN Vector2D(0, 0)
        ELSE VecRMul(field_magnitude, unit_vector)

\* ---------------------------------------------------- particle.py: Particle
\* Particle.calculate_force keeping only the field of the last charge
\* ("field =" for "field +=").
RECURSIVE Particle_sum_fields_LastOnly(_, _, _)
Particle_sum_fields_LastOnly(field, charges, position) ==
    IF charges = <<>>
    THEN field
    ELSE Particle_sum_fields_LastOnly(
             Charge_calculate_field(Head(charges),
                                    Point2D(position.x, position.y)),
             Tail(charges), position)

\* Particle.calculate_force: the fields are added in list order.
RECURSIVE Particle_sum_fields(_, _, _)
Particle_sum_fields(field, charges, position) ==
    IF charges = <<>>
    THEN field
    ELSE Particle_sum_fields(
             VecAdd(field, Charge_calculate_field(Head(charges),
                                                  Point2D(position.x, position.y))),
             Tail(charges), position)

Particle_calculate_force(self) ==
    VecRMul(self.charge,
            Particle_sum_fields(Vector2D(0, 0), self.external_charges, self.position))

\* Particle.move with the displacement taken from the velocity before its
\* update (forward Euler).
Particle_move_ForwardEuler(self, net_force, dt) ==
    IF self.slow_factor = 0 \/ self.mass = 0
    THEN ZeroDivisionError
    ELSE LET dt2 == FDiv(dt, self.slow_factor)
             acceleration == VecDiv(net_force, self.mass)
             velocity == VecAdd(self.velocity, VecMul(acceleration, dt2))
             displacement == VecMul(self.velocity, dt2)
         IN  [self EXCEPT !.velocity = velocity,
                          !.position = Point2D(FAdd(self.position.x, displacement.x),
                                               FAdd(self.position.y, displacement.y))]

\* Particle.move: the particle after the move, or the error raised.
Particle_move(self, net_force, dt) ==
    IF self.slow_factor = 0 \/ self.mass = 0
    THEN ZeroDivisionError
    ELSE LET dt2 == FDiv(dt, self.slow_factor)
             acceleration == VecDiv(net_force, self.mass)
             velocity == VecAdd(self.velocity, VecMul(acceleration, dt2))
             displacement == VecMul(velocity, dt2)
         IN  [self EXCEPT !.velocity = velocity,
                          !.position = Point2D(FAdd(self.position.x, displacement.x),
                                               FAdd(self.position.y, displacement.y))]

\* ------------------------------------------- physics.py: ChargeLogic
KeyError == [raised |-> "KeyError"]

TypeError == [raised |-> "TypeError"]

\* ChargeLogic.__init__
ChargeLogic(value, permittivity) ==
    LET denom == FMul(FMul(Num(4), Pi), permittivity)
    IN  IF denom = 0
        THEN ZeroDivisionError
        ELSE [cls |-> "ChargeLogic", value |-> value,
              permittivity |-> permittivity, k |-> FDiv(Num(1), denom)]

\* ChargeLogic.calculate_field with the direction taken from the query point
\* to the charge.
ChargeLogic_calculate_field_Reversed(self, position, other_position) ==
    LET direction == from_points(other_position, position)
        distance_squared == FAdd(FMul(direction.x, direction.x),
                                 FMul(direction.y, direction.y))
        unit_vector == normalize(direction)
        field_magnitude == FDiv(FMul(self.k, self.value), distance_squared)
    IN  IF distance_squared = 0
        THEN Vector2D(0, 0)
        ELSE VecRMul(field_magnitude, unit_vector)

\* ChargeLogic.calculate_field
ChargeLogic_calculate_field(self, position, other_position) ==
    LET direction == from_points(position, other_position)
        distance_squared == FAdd(FMul(direction.x, direction.x),
                                 FMul(direction.y, direction.y))
        unit_vector == normalize(direction)
        field_magnitude == FDiv(FMul(self.k, self.value), distance_squared)
    IN  IF distance_squared = 0
        THEN Vector2D(0, 0)
        ELSE VecRMul(field_magnitude, unit_vector)

\* ChargeLogic.run returning the queried point as the position when a field is
\* asked for.
ChargeLogic_run_MovesToQuery(self, kwargs) ==
    IF "position" \notin DOMAIN kwargs
    THEN KeyError
    ELSE IF "other_position" \in DOMAIN kwargs
         THEN [position |-> kwargs.other_position,
               field |-> ChargeLogic_calculate_field(self, kwargs.position,
                                                     kwargs.other_position)]
         ELSE [position |-> kwargs.position]

\* ChargeLogic.run: the dictionary returned.
ChargeLogic_run(self, kwargs) ==
    IF "position" \notin DOMAIN kwargs
    THEN KeyError
    ELSE IF "other_position" \in DOMAIN kwargs
         THEN [position |-> kwargs.position,
               field |-> ChargeLogic_calculate_field(self, kwargs.position,
                                                     kwargs.other_position)]
         ELSE [position |-> kwargs.position]

\* ------------------------------------------ physics.py: ParticleLogic
\* ParticleLogic.__init__; external_charges holds references (entity ids).
ParticleLogic(velocity, external_charges, slow_factor, mass, charge) ==
    [cls |-> "ParticleLogic", velocity |-> velocity,
     external_charges |-> external_charges, slow_factor |-> slow_factor,
     mass |-> mass, charge |-> charge]

\* The factor 10e18 that scales the force arrow handed to the visuals, in
\* model units.
ForceArrowScale == 2

\* ParticleLogic.move with the displacement taken from the velocity before its
\* update (forward Euler).
ParticleLogic_move_ForwardEuler(self, position, net_force, dt) ==
    IF self.slow_factor = 0 \/ self.mass = 0
    THEN ZeroDivisionError
    ELSE LET dt2 == FDiv(dt, self.slow_factor)
             acceleration == VecDiv(net_force, self.mass)
             velocity == VecAdd(self.velocity, VecMul(acceleration, dt2))
             displacement == VecMul(self.velocity, dt2)
         IN  [self |-> [self EXCEPT !.velocity = velocity],
              ret |-> [position |-> Point2D(FAdd(position.x, displacement.x),
                                            FAdd(position.y, displacement.y)),
                       velocity |-> velocity,
                       acceleration |-> acceleration,
                       force |-> net_force]]

\* ParticleLogic.move leaving self.velocity as it was.
ParticleLogic_move_Pure(self, position, net_force, dt) ==
    IF self.slow_factor = 0 \/ self.mass = 0
    THEN ZeroDivisionError
    ELSE LET dt2 == FDiv(dt, self.slow_factor)
             acceleration == VecDiv(net_force, self.mass)
             velocity == VecAdd(self.velocity, VecMul(acceleration, dt2))
             displacement == VecMul(velocity, dt2)
         IN  [self |-> self,
              ret |-> [position |-> Point2D(FAdd(position.x, displacement.x),
                                            FAdd(position.y, displacement.y)),
                       velocity |-> velocity,
                       acceleration |-> acceleration,
                       force |-> net_force]]

\* ParticleLogic.move: the logic element after the move and the dictionary
\* returned, or the error raised.
ParticleLogic_move(self, position, net_force, dt) ==
    IF self.slow_factor = 0 \/ self.mass = 0
    THEN ZeroDivisionError
    ELSE LET dt2 == FDiv(dt, self.slow_factor)
             acceleration == VecDiv(net_force, self.mass)
             velocity == VecAdd(self.velocity, VecMul(acceleration, dt2))
             displacement == VecMul(velocity, dt2)
         IN  [self |-> [self EXCEPT !.velocity = velocity],
              ret |-> [position |-> Point2D(FAdd(position.x, displacement.x),
                                            FAdd(position.y, displacement.y)),
                       velocity |-> velocity,
                       acceleration |-> acceleration,
                       force |-> net_force]]

\* ------------------------------------------------------ entity.py: Entity
\* The entities live in a store: ents maps an entity's identity to its
\* fields, log lists the update and draw calls made in the current tick.
\* An operation on the store yields the store after it with either the value
\* returned (ret) or the exception raised (raised).

\* Entity.__init__
Entity(visual_elements, logic_elements, dynamic, position) ==
    [visual_elements |-> visual_elements, logic_elements |-> logic_elements,
     dynamic |-> dynamic, position |-> position]

\* The bound 10e3 of Entity.update, in model units.
EntityBound == 100

\* dict.update: the entries of run_data replace those of return_data.
DictUpdate(return_data, run_data) == run_data @@ return_data

\* del d[key]
DictDel(d, key) == [n \in DOMAIN d \ {key} |-> d[n]]

\* VisualPoint2D.draw / VisualVector2D.draw as far as the caller sees them:
\* the call is logged; VisualVector2D.draw reads kwargs["screen"].
Visual_draw(store, id, element, kwargs) ==
    LET logged == [store EXCEPT !.log = Append(@, <<"draw", id>>)]
    IN  IF element.cls = "VisualVector2D" /\ "screen" \notin DOMAIN kwargs
        THEN [store |-> logged, raised |-> "KeyError"]
        ELSE [store |-> logged, ret |-> "None"]

\* Entity.visual drawing nothing.
Entity_visual_DrawsNothing(store, id, kwargs) ==
    [store |-> store, ret |-> "None"]

\* Entity.visual: draws the visual elements in list order.
Entity_visual(store, id, kwargs) ==
    LET self == store.ents[id]
        n == Len(self.visual_elements)
        loop[i \in 0..n] ==
            IF i = 0 THEN [store |-> store, ret |-> "None"]
            ELSE IF IsRaised(loop[i - 1]) THEN loop[i - 1]
            ELSE IF "position" \in DOMAIN kwargs
                 THEN [store |-> loop[i - 1].store, raised |-> "TypeError"]
                 ELSE Visual_draw(loop[i - 1].store, id, self.visual_elements[i],
                                  [position |-> self.position] @@ kwargs)
    IN  loop[n]

\* Entity.logic merging with the entries already in return_data kept
\* (an earlier element's entry wins).
Entity_logic_merge_KeepsEarlier(before, id, i, return_data, r) ==
    LET ran == [r.store EXCEPT !.ents[id].logic_elements[i] = r.self]
    IN  IF IsRaised(r)
        THEN [store |-> ran, raised |-> r.raised]
        ELSE IF "position" \in DOMAIN r.ret
             THEN [store |-> [ran EXCEPT !.ents[id].position = r.ret.position],
                   ret |-> DictUpdate(DictDel(r.ret, "position"), return_data)]
             ELSE [store |-> ran, ret |-> DictUpdate(r.ret, return_data)]

\* Entity.logic, the body of its loop after element.run returned r: the
\* position returned is stored in the entity and removed from the data, the
\* rest is merged into return_data.
Entity_logic_merge(before, id, i, return_data, r) ==
    LET ran == [r.store EXCEPT !.ents[id].logic_elements[i] = r.self]
    IN  IF IsRaised(r)
        THEN [store |-> ran, raised |-> r.raised]
        ELSE IF "position" \in DOMAIN r.ret
             THEN [store |-> [ran EXCEPT !.ents[id].position = r.ret.position],
                   ret |-> DictUpdate(return_data, DictDel(r.ret, "position"))]
             ELSE [store |-> ran, ret |-> DictUpdate(return_data, r.ret)]

\* Entity.update testing the bound with >= in place of >.
Entity_update_finish_DestroysOnBound(l, id, kwargs) ==
    IF IsRaised(l) THEN l
    ELSE IF DOMAIN l.ret \cap DOMAIN kwargs # {}
         THEN [store |-> l.store, raised |-> "TypeError"]
         ELSE LET v == Entity_visual(l.store, id, l.ret @@ kwargs)
                  position == v.store.ents[id].position
              IN  IF IsRaised(v) THEN v
                  ELSE IF Abs(position.x) >= Num(EntityBound)
                          \/ Abs(position.y) >= Num(EntityBound)
                       THEN [store |-> v.store, ret |-> [destroy |-> TRUE]]
                       ELSE [store |-> v.store, ret |-> l.ret]

\* Entity.update after self.logic returned l: the visual elements are drawn
\* with the merged data, then the position is tested against the bound.
Entity_update_finish(l, id, kwargs) ==
    IF IsRaised(l) THEN l
    ELSE IF DOMAIN l.ret \cap DOMAIN kwargs # {}
         THEN [store |-> l.store, raised |-> "TypeError"]
         ELSE LET v == Entity_visual(l.store, id, l.ret @@ kwargs)
                  position == v.store.ents[id].position
              IN  IF IsRaised(v) THEN v
                  ELSE IF Abs(position.x) > Num(EntityBound)
                          \/ Abs(position.y) > Num(EntityBound)
                       THEN [store |-> v.store, ret |-> [destroy |-> TRUE]]
                       ELSE [store |-> v.store, ret |-> l.ret]

\* element.run of a logic element of an external charge that leaves the
\* charge with half its value once it has answered.
ExternalLogic_run_Discharges(store, element, kwargs) ==
    IF element.cls = "ChargeLogic"
    THEN LET r == ChargeLogic_run(element, kwargs)
             spent == [element EXCEPT !.value = FDiv(@, Num(2))]
         IN  IF IsRaised(r)
             THEN [store |-> store, self |-> element, raised |-> r.raised]
             ELSE [store |-> store, self |-> spent, ret |-> r]
    ELSE [store |-> store, self |-> element, raised |-> "KeyError"]

\* element.run of a logic element of an external charge, as calculate_force
\* reaches it: the update it calls passes other_position only, so a
\* ParticleLogic.run there fails on kwargs["dt"].
ExternalLogic_run(store, element, kwargs) ==
    IF element.cls = "ChargeLogic"
    THEN LET r == ChargeLogic_run(element, kwargs)
         IN  IF IsRaised(r)
             THEN [store |-> store, self |-> element, raised |-> r.raised]
             ELSE [store |-> store, self |-> element, ret |-> r]
    ELSE [store |-> store, self |-> element, raised |-> "KeyError"]

\* Entity.logic of an external charge: the elements run in list order, each
\* with the position the elements before it left.
External_logic(store, id, kwargs) ==
    LET n == Len(store.ents[id].logic_elements)
        loop[i \in 0..n] ==
            IF i = 0 THEN [store |-> store, ret |-> <<>>]
            ELSE IF IsRaised(loop[i - 1]) THEN loop[i - 1]
            ELSE IF "position" \in DOMAIN kwargs
                 THEN [store |-> loop[i - 1].store, raised |-> "TypeError"]
                 ELSE LET before == loop[i - 1].store
                          self == before.ents[id]
                      IN  Entity_logic_merge(before, id, i, loop[i - 1].ret,
                              ExternalLogic_run(before, self.logic_elements[i],
                                  [position |-> self.position] @@ kwargs))
    IN  loop[n]

\* c.update(other_position=...) leaving the charge at the point asked about.
External_update_Drifts(store, id, kwargs) ==
    Entity_update_finish(
        External_logic([store EXCEPT !.log = Append(@, <<"update", id>>),
                                     !.ents[id].position = kwargs.other_position],
                       id, kwargs),
        id, kwargs)

\* c.update(other_position=...) of an external charge c.
External_update(store, id, kwargs) ==
    Entity_update_finish(
        External_logic([store EXCEPT !.log = Append(@, <<"update", id>>)],
                       id, kwargs),
        id, kwargs)

\* ParticleLogic.calculate_force keeping only the field of the charge updated
\* last ("field =" for "field +=").
RECURSIVE ParticleLogic_sum_fields_LastOnly(_, _, _, _)
ParticleLogic_sum_fields_LastOnly(store, field, charges, position) ==
    IF charges = <<>>
    THEN [store |-> store, ret |-> field]
    ELSE The({IF IsRaised(u) THEN u
              ELSE IF "field" \notin DOMAIN u.ret
                   THEN [store |-> u.store, raised |-> "KeyError"]
                   ELSE ParticleLogic_sum_fields_LastOnly(u.store, u.ret.field,
                            Tail(charges), position) :
              u \in {External_update(store, Head(charges),
                         [other_position |-> Point2D(position.x, position.y)])}})

\* ParticleLogic.calculate_force: every external charge is updated with the
\* particle's position and the fields returned are added in list order.
RECURSIVE ParticleLogic_sum_fields(_, _, _, _)
ParticleLogic_sum_fields(store, field, charges, position) ==
    IF charges = <<>>
    THEN [store |-> store, ret |-> field]
    ELSE The({IF IsRaised(u) THEN u
              ELSE IF "field" \notin DOMAIN u.ret
                   THEN [store |-> u.store, raised |-> "KeyError"]
                   ELSE ParticleLogic_sum_fields(u.store, VecAdd(field, u.ret.field),
                            Tail(charges), position) :
              u \in {External_update(store, Head(charges),
                         [other_position |-> Point2D(position.x, position.y)])}})

ParticleLogic_calculate_force(store, self, position) ==
    The({IF IsRaised(f) THEN f
         ELSE [store |-> f.store, ret |-> VecRMul(self.charge, f.ret)] :
         f \in {ParticleLogic_sum_fields(store, Vector2D(0, 0),
                                         self.external_charges, position)}})

\* ParticleLogic.run: the store and the logic element after the run, and the
\* dictionary returned.
ParticleLogic_run(store, self, kwargs) ==
    IF "dt" \notin DOMAIN kwargs \/ "position" \notin DOMAIN kwargs
    THEN [store |-> store, self |-> self, raised |-> "KeyError"]
    ELSE The({IF IsRaised(f)
              THEN [store |-> f.store, self |-> self, raised |-> f.raised]
              ELSE The({IF IsRaised(m)
                        THEN [store |-> f.store, self |-> self,
                              raised |-> m.raised]
                        ELSE [store |-> f.store, self |-> m.self,
                              ret |-> [position |-> m.ret.position,
                                       other_position |->
                                           VecMul(m.ret.force,
                                                  Num(ForceArrowScale)),
                                       width_clamps |-> <<"5", "10", "0.7">>,
                                       arrowhead_clamps |-> <<"10", "25", "3">>,
                                       magnitude_clamps |-> <<"25", "60", "1">>]] :
                        m \in {ParticleLogic_move(self, kwargs.position, f.ret,
                                                  kwargs.dt)}}) :
              f \in {ParticleLogic_calculate_force(store, self,
                                                   kwargs.position)}})

\* element.run(position=self.position, **kwargs) of a logic element.
Logic_run(store, element, kwargs) ==
    IF element.cls = "ChargeLogic"
    THEN LET r == ChargeLogic_run(element, kwargs)
         IN  IF IsRaised(r)
             THEN [store |-> store, self |-> element, raised |-> r.raised]
             ELSE [store |-> store, self |-> element, ret |-> r]
    ELSE ParticleLogic_run(store, element, kwargs)

\* Entity.logic: the elements run in list order, each with the position the
\* elements before it left.
Entity_logic(store, id, kwargs) ==
    LET n == Len(store.ents[id].logic_elements)
        loop[i \in 0..n] ==
            IF i = 0 THEN [store |-> store, ret |-> <<>>]
            ELSE IF IsRaised(loop[i - 1]) THEN loop[i - 1]
            ELSE IF "position" \in DOMAIN kwargs
                 THEN [store |-> loop[i - 1].store, raised |-> "TypeError"]
                 ELSE LET before == loop[i - 1].store
                          self == before.ents[id]
                      IN  Entity_logic_merge(before, id, i, loop[i - 1].ret,
                              Logic_run(before, self.logic_elements[i],
                                  [position |-> self.position] @@ kwargs))
    IN  loop[n]

\* Entity.update
Entity_update(store, id, kwargs) ==
    Entity_update_finish(
        Entity_logic([store EXCEPT !.log = Append(@, <<"update", id>>)],
                     id, kwargs),
        id, kwargs)

\* ------------------------------------------------- program constants
\* The default permittivity 8.8542e-12, in quanta of the model unit.
VacuumPermittivity == 1

\* Masses (9.109e-31, 1.673e-27, 1.675e-27 kg) and the elementary charge
\* (1.602e-19 C), in model units.
ElectronMass == 1

ProtonMass == 2

NeutronMass == 2

ElementaryCharge == 1

\* ------------------------------------------------- objects.py: entities
\* objects.Charge
ChargeEntity(position, value) ==
    Entity(<<[cls |-> "VisualPoint2D"]>>,
           <<ChargeLogic(value, VacuumPermittivity)>>, FALSE, position)

\* objects.Field
FieldEntity(position, vector) ==
    Entity(<<[cls |-> "VisualVector2D", vector |-> vector]>>, <<>>, FALSE, position)

\* objects.Electron
ElectronEntity(position, velocity, external_charges, slow_factor) ==
    Entity(<<[cls |-> "VisualPoint2D"]>>,
           <<ParticleLogic(velocity, external_charges, slow_factor,
                           Num(ElectronMass), -Num(ElementaryCharge))>>,
           TRUE, position)

\* objects.Positron
PositronEntity(position, velocity, external_charges, slow_factor) ==
    Entity(<<[cls |-> "VisualPoint2D"]>>,
           <<ParticleLogic(velocity, external_charges, slow_factor,
                           Num(ElectronMass), Num(ElementaryCharge))>>,
           TRUE, position)

\* objects.Proton
ProtonEntity(position, velocity, external_charges, slow_factor) ==
    Entity(<<[cls |-> "VisualPoint2D"]>>,
           <<ParticleLogic(velocity, external_charges, slow_factor,
                           Num(ProtonMass), Num(ElementaryCharge))>>,
           TRUE, position)

\* objects.Neutron
NeutronEntity(position, velocity, external_charges, slow_factor) ==
    Entity(<<[cls |-> "VisualPoint2D"]>>,
           <<ParticleLogic(velocity, external_charges, slow_factor,
                           Num(NeutronMass), 0)>>,
           TRUE, position)

\* ============================================================ FnSpec
\* The field, force and move computations applied to bounded inputs: call
\* holds the function called and its arguments, ret what it returned.
VARIABLES call, ret

\* The window program (main.py, simulation.py): pc is the place reached in
\* main.py and SimulationWindow.run, window the SimulationWindow, heap the
\* particles created (the lists hold references to them), running, dt and
\* idx the locals of run (idx the place of the loop over dynamic_objects),
\* frame the number of frames completed.  They record the history the
\* properties speak of: pass_start the dynamic list when the current update
\* pass began, updates the particles updated in it, out those whose update
\* returned False in it, gone those whose update returned False in an
\* earlier frame, rebuilds the number of times the static layer was rebuilt
\* since the last add_object.
VARIABLES pc, window, heap, running, dt, idx, frame,
          pass_start, updates, out, gone, rebuilds

fvars == <<call, ret>>

wvars == <<pc, window, heap, running, dt, idx, frame,
           pass_start, updates, out, gone, rebuilds>>

\* The entity pipeline (entity.py, physics.py, objects.py) under a world
\* that steps it: store holds the entities created (ents, by id) and the
\* update and draw calls made since the current step began (log), entities
\* the world's collection of entity ids in insertion order, steps the number
\* of steps taken.
VARIABLES store, entities, steps

evars == <<store, entities, steps>>

\* The entity pipeline not started.
EntityIdle ==
    /\ store = [ents |-> <<>>, log |-> <<>>] /\ entities = <<>> /\ steps = 0

\* The window program not started.
WorldIdle ==
    /\ pc = "idle" /\ window = <<>> /\ heap = <<>> /\ running = FALSE
    /\ dt = 0 /\ idx = 0 /\ frame = 0
    /\ pass_start = <<>> /\ updates = <<>> /\ out = {} /\ gone = {}
    /\ rebuilds = 0

\* The longest list of external charges a force is computed from.
MaxCharges == 3

\* Coordinates: grid values, and values one and three quanta from the origin.
Coords == {0, 1, 3, Num(3), Num(4), Num(8)}

Points == {Point2D(x, y) : x \in Coords, y \in Coords}

ChargeValues == {-Num(8), -Num(2), 0, Num(2), Num(8)}

Permittivities == {VacuumPermittivity, 2 * VacuumPermittivity}

FieldCalls ==
    [fn : {"Charge.calculate_field", "ChargeLogic.calculate_field"},
     value : ChargeValues, permittivity : Permittivities,
     position : Points, other_position : Points]

\* The charges a force is computed from, and the places it is computed at.
SourceCharges ==
    {[value |-> Num(16), position |-> Point2D(0, 0)],
     [value |-> Num(8), position |-> Point2D(Num(8), 0)],
     [value |-> -Num(8), position |-> Point2D(Num(4), Num(3))],
     [value |-> Num(2), position |-> Point2D(Num(3), Num(4))],
     [value |-> -Num(2), position |-> Point2D(Num(1), 0)]}

ChargeLists ==
    UNION {[1..n -> SourceCharges] : n \in 0..MaxCharges}

BodyPoints ==
    {Point2D(Num(1), 0), Point2D(Num(4), 0), Point2D(Num(3), Num(4)),
     Point2D(Num(1), Num(1))}

BodyCharges == {-Num(ElementaryCharge), 0, Num(ElementaryCharge)}

ForceCalls ==
    [fn : {"Particle.calculate_force", "ParticleLogic.calculate_force"},
     charges : ChargeLists, position : BodyPoints, charge : BodyCharges]

Velocities == {Vector2D(0, 0), Vector2D(Num(1), 0), Vector2D(-Num(2), Num(1))}

Forces == {Vector2D(0, 0), Vector2D(Num(2), 0), Vector2D(-Num(1), Num(4)),
           Vector2D(Num(3), -Num(3))}

TimeSteps == {Num(1) \div 2, Num(1), Num(2)}

Masses == {Num(ElectronMass), Num(ProtonMass)}

SlowFactors == {Num(1), Num(2)}

MoveCalls ==
    [fn : {"Particle.move", "ParticleLogic.move"},
     position : BodyPoints, velocity : Velocities, net_force : Forces,
     dt : TimeSteps, mass : Masses, slow_factor : SlowFactors]

\* Vectors divided and normalized: components of one and three quanta (whose
\* squares underflow or round) among the grid values.
VectorParts == {-Num(4), -3, 0, 1, 3, Num(3), Num(8)}

Vectors == {Vector2D(x, y) : x \in VectorParts, y \in VectorParts}

Scalars == {-Num(4), -3, 0, 1, Num(1), Num(2)}

DivCalls == [fn : {"Vector2D.__truediv__"}, v : Vectors, scalar : Scalars]

NormalizeCalls == [fn : {"Vector2D.normalize"}, v : Vectors]

\* Two charges of the same value at m - d and m + d, and a body at m.
Midpoints == {Point2D(Num(5), 0), Point2D(Num(3), Num(4))}

HalfGaps == {Vector2D(Num(5), 0), Vector2D(Num(1), Num(2)),
             Vector2D(Num(4), -Num(3)), Vector2D(3, 1)}

SymmetricCalls ==
    {[fn |-> f,
      charges |-> <<[value |-> q, position |-> Point2D(m.x - d.x, m.y - d.y)],
                    [value |-> q, position |-> Point2D(m.x + d.x, m.y + d.y)]>>,
      position |-> m, charge |-> c] :
     f \in {"Particle.calculate_force", "ParticleLogic.calculate_force"},
     q \in ChargeValues, m \in Midpoints, d \in HalfGaps,
     c \in BodyCharges}

\* The longest list of logic elements of an entity whose logic is run.
MaxLogic == 3

\* The charges of the store an entity's logic or update is run in.
NearCharges ==
    <<[value |-> Num(16), position |-> Point2D(0, 0)],
      [value |-> Num(8), position |-> Point2D(Num(8), 0)]>>

\* Logic elements: two ParticleLogic of different mass, charge and external
\* charges, and a ChargeLogic.
LogicElements ==
    {ParticleLogic(Vector2D(Num(1), 0), <<1>>, Num(1), Num(ElectronMass),
                   -Num(ElementaryCharge)),
     ParticleLogic(Vector2D(0, Num(1)), <<1, 2>>, Num(1), Num(ProtonMass),
                   Num(ElementaryCharge)),
     ChargeLogic(Num(8), VacuumPermittivity)}

LogicLists == UNION {[1..n -> LogicElements] : n \in 0..MaxLogic}

LogicCalls ==
    [fn : {"Entity.logic"}, logic_elements : LogicLists,
     position : {Point2D(Num(4), Num(3)), Point2D(Num(1), Num(1))},
     dt : {Num(1), Num(2)}, other_position : {Point2D(Num(4), 0)}]

\* The charges an updated body is given: one inside the bound of
\* Entity.update, one beyond it.
UpdateCharges ==
    {[value |-> Num(8), position |-> Point2D(Num(2), Num(4))],
     [value |-> -Num(8), position |-> Point2D(Num(6), Num(4))],
     [value |-> Num(8), position |-> Point2D(Num(EntityBound) + Num(4), Num(4))]}

UpdateChargeLists == UNION {[1..n -> UpdateCharges] : n \in 0..2}

EntityUpdateCalls ==
    [fn : {"Entity.update"}, kind : {"Electron", "Proton", "Neutron"},
     charges : UpdateChargeLists,
     position : {Point2D(Num(4), Num(3)), Point2D(Num(2), Num(4)),
                 Point2D(Num(EntityBound) - Num(4), Num(4))},
     velocity : {Vector2D(0, 0), Vector2D(Num(8), 0)},
     dt : TimeSteps]

\* Constructor arguments, valid and not.
ConstructCalls ==
    [fn : {"ParticleLogic.__init__"}, mass : {-Num(1), 0, Num(1)},
     slow_factor : {-Num(1), 0, Num(1)},
     net_force : {Vector2D(0, 0), Vector2D(Num(2), 0)}, dt : TimeSteps]
    \cup [fn : {"ChargeLogic.__init__", "Charge.__init__"},
          value : ChargeValues, permittivity : {-2, -1, 0, 1, 2}]

Pending == [pending |-> TRUE]

Returned(r) == "pending" \notin DOMAIN r

\* The particle.Particle a call is made on.
ParticleOf(position, velocity, external_charges, slow_factor, mass, charge) ==
    [position |-> position, velocity |-> velocity,
     external_charges |-> external_charges, slow_factor |-> slow_factor,
     mass |-> mass, charge |-> charge]

\* The charge.Charge objects of a list of charges.
ChargesOf(charges) ==
    [i \in 1..Len(charges) |->
        Charge(charges[i].value, charges[i].position, VacuumPermittivity)]

\* The store holding the objects.Charge entities of a list of charges, entity
\* i being charge i of the list.
StoreOf(charges) ==
    [ents |-> [i \in 1..Len(charges) |->
                  ChargeEntity(charges[i].position, charges[i].value)],
     log |-> <<>>]

\* Lengths of the window program are pixels; a model unit is 100 pixels.
PixelsPerUnit == 100

Pixels(n) == Fl(n * Scale, PixelsPerUnit)

\* ------------------------------------------- particle.py: the particles
\* slow_factor = 10e4, in model units.
ParticleSlowFactor == 1

ElectronRadius == 7

ProtonRadius == 9

NeutronRadius == 9

\* The 800 of the bounds test of Particle.update.
UpdateBound == 800

\* particle.Electron
Electron(position, velocity, external_charges) ==
    ParticleOf(position, velocity, external_charges, Num(ParticleSlowFactor),
               Num(ElectronMass), -Num(ElementaryCharge))
    @@ [label |-> "e-", radius |-> Pixels(ElectronRadius), point |-> position]

\* particle.Proton
Proton(position, velocity, external_charges) ==
    ParticleOf(position, velocity, external_charges, Num(ParticleSlowFactor),
               Num(ProtonMass), Num(ElementaryCharge))
    @@ [label |-> "p+", radius |-> Pixels(ProtonRadius), point |-> position]

\* particle.Neutron
Neutron(position, velocity, external_charges) ==
    ParticleOf(position, velocity, external_charges, Num(ParticleSlowFactor),
               Num(NeutronMass), 0)
    @@ [label |-> "n", radius |-> Pixels(NeutronRadius), point |-> position]

\* Particle.update testing the bound of Entity.update, 10e3 either way, in
\* place of the 800 and the radius.
Particle_update_WorldBound(self, dt_) ==
    The({IF IsRaised(moved)
         THEN [self |-> self, raised |-> moved.raised]
         ELSE IF \/ Abs(moved.position.x) > Pixels(10000)
                 \/ Abs(moved.position.y) > Pixels(10000)
              THEN [self |-> moved, ret |-> FALSE]
              ELSE [self |-> [moved EXCEPT !.point = moved.position],
                    ret |-> TRUE] :
         moved \in {Particle_move(self, Particle_calculate_force(self), dt_)}})

\* Particle.update: the particle after the update and the value returned
\* (False when the particle is out of bounds), or the error raised.
Particle_update(self, dt_) ==
    The({IF IsRaised(moved)
         THEN [self |-> self, raised |-> moved.raised]
         ELSE IF \/ moved.position.x < FSub(0, moved.radius)
                 \/ moved.position.x > FAdd(Pixels(UpdateBound), moved.radius)
                 \/ moved.position.y < FSub(0, moved.radius)
                 \/ moved.position.y > FAdd(Pixels(UpdateBound), moved.radius)
              THEN [self |-> moved, ret |-> FALSE]
              ELSE [self |-> [moved EXCEPT !.point = moved.position],
                    ret |-> TRUE] :
         moved \in {Particle_move(self, Particle_calculate_force(self), dt_)}})

\* ------------------------------------------- objects and references
\* Two bodies among Python's objects.  mem holds the objects (the list of
\* external charges, then the Point2D and Vector2D objects), and a body holds
\* the places in mem of its position, its velocity and its list of charges.
\* simulation.py makes a Point2D and a Vector2D for every particle and hands
\* each the one list self.charges; a caller may hand two bodies one object,
\* and Entity.__init__ gives every entity made without a position the one
\* Point2D(0, 0) of its default.  The second body is made from the objects
\* of the first that shared names, and from objects of its own otherwise.
SharedCalls ==
    [fn : {"Particle.update among bodies", "Entity.update among bodies"},
     kind : {"Electron", "Neutron"},
     charges : UpdateChargeLists,
     position : {Point2D(Num(4), Num(3)), Point2D(0, 0)},
     velocity : {Vector2D(0, 0), Vector2D(Num(8), 0)},
     dt : {Num(1)},
     shared : SUBSET {"position", "velocity"}]

\* The position and velocity of a second body made from objects of its own.
OtherPosition == Point2D(Num(3), Num(4))

OtherVelocity == Vector2D(0, Num(2))

\* The objects of a call, before the update.
Objects(c) ==
    <<IF c.fn = "Particle.update among bodies"
      THEN ChargesOf(c.charges) ELSE [i \in 1..Len(c.charges) |-> i],
      c.position, c.velocity, OtherPosition, OtherVelocity>>

\* The two bodies of a call, before the update.
Bodies(c) ==
    <<[position |-> 2, velocity |-> 3, external_charges |-> 1],
      [position |-> IF "position" \in c.shared THEN 2 ELSE 4,
       velocity |-> IF "velocity" \in c.shared THEN 3 ELSE 5,
       external_charges |-> 1]>>

\* The particle.py particle of a kind that a body is, its objects read.
ParticleAt(mem, body, kind) ==
    IF kind = "Electron"
    THEN Electron(mem[body.position], mem[body.velocity],
                  mem[body.external_charges])
    ELSE Neutron(mem[body.position], mem[body.velocity],
                 mem[body.external_charges])

\* The store of the charges with, behind them, the objects.py entity of a
\* kind that a body is, its objects read.
StoreAt(charges, mem, body, kind) ==
    [StoreOf(charges) EXCEPT
        !.ents = Append(@,
            IF kind = "Electron"
            THEN ElectronEntity(mem[body.position], mem[body.velocity],
                                mem[body.external_charges], Num(1))
            ELSE NeutronEntity(mem[body.position], mem[body.velocity],
                               mem[body.external_charges], Num(1)))]

\* An update writing the new velocity and position into the objects the body
\* holds.
Particle_update_among_InPlace(mem, bodies, b, kind, dt_) ==
    The({IF IsRaised(u)
         THEN [mem |-> mem, bodies |-> bodies, raised |-> u.raised]
         ELSE [mem |-> [mem EXCEPT ![bodies[b].velocity] = u.self.velocity,
                                   ![bodies[b].position] = u.self.position],
               bodies |-> bodies, ret |-> u.ret] :
         u \in {Particle_update(ParticleAt(mem, bodies[b], kind), dt_)}})

\* Particle.update of body b: move binds self.velocity to the Vector2D that
\* Vector2D.__add__ made and self.position to the Point2D it makes, and
\* writes into no object.
Particle_update_among(mem, bodies, b, kind, dt_) ==
    The({IF IsRaised(u)
         THEN [mem |-> mem, bodies |-> bodies, raised |-> u.raised]
         ELSE [mem |-> mem \o <<u.self.velocity, u.self.position>>,
               bodies |-> [bodies EXCEPT ![b].velocity = Len(mem) + 1,
                                         ![b].position = Len(mem) + 2],
               ret |-> u.ret] :
         u \in {Particle_update(ParticleAt(mem, bodies[b], kind), dt_)}})

\* Entity.update of body b: ParticleLogic.move binds self.velocity to the
\* Vector2D that Vector2D.__add__ made and returns the Point2D it makes,
\* which Entity.logic binds self.position to; an update that raises, raises
\* before move.
Entity_update_among(charges, mem, bodies, b, kind, kwargs) ==
    LET id == Len(charges) + 1
    IN  The({IF IsRaised(u)
             THEN [mem |-> mem, bodies |-> bodies, store |-> u.store,
                   raised |-> u.raised]
             ELSE [mem |-> mem \o <<u.store.ents[id].logic_elements[1].velocity,
                                    u.store.ents[id].position>>,
                   bodies |-> [bodies EXCEPT ![b].velocity = Len(mem) + 1,
                                             ![b].position = Len(mem) + 2],
                   store |-> u.store, ret |-> u.ret] :
             u \in {Entity_update(StoreAt(charges, mem, bodies[b], kind),
                                  id, kwargs)}})

FnInit ==
    /\ \/ call \in FieldCalls
       \/ call \in ForceCalls
       \/ call \in MoveCalls
       \/ call \in DivCalls
       \/ call \in NormalizeCalls
       \/ call \in SymmetricCalls
       \/ call \in LogicCalls
       \/ call \in EntityUpdateCalls
       \/ call \in ConstructCalls
       \/ call \in SharedCalls
    /\ ret = Pending
    /\ WorldIdle
    /\ EntityIdle

CallChargeField ==
    /\ call.fn = "Charge.calculate_field" /\ ~Returned(ret)
    /\ ret' = [value |-> Charge_calculate_field(
                   Charge(call.value, call.position, call.permittivity),
                   call.other_position)]
    /\ UNCHANGED call

CallChargeLogicField ==
    /\ call.fn = "ChargeLogic.calculate_field" /\ ~Returned(ret)
    /\ ret' = [value |-> ChargeLogic_calculate_field(
                   ChargeLogic(call.value, call.permittivity),
                   call.position, call.other_position)]
    /\ UNCHANGED call

CallParticleForce ==
    /\ call.fn = "Particle.calculate_force" /\ ~Returned(ret)
    /\ ret' = [value |-> Particle_calculate_force(
                   ParticleOf(call.position, Vector2D(0, 0), ChargesOf(call.charges),
                              Num(1), Num(1), call.charge))]
    /\ UNCHANGED call

CallParticleLogicForce ==
    /\ call.fn = "ParticleLogic.calculate_force" /\ ~Returned(ret)
    /\ ret' = ParticleLogic_calculate_force(
                   StoreOf(call.charges),
                   ParticleLogic(Vector2D(0, 0),
                                 [i \in 1..Len(call.charges) |-> i],
                                 Num(1), Num(1), call.charge),
                   call.position)
    /\ UNCHANGED call

CallParticleMove ==
    /\ call.fn = "Particle.move" /\ ~Returned(ret)
    /\ ret' = [self |-> Particle_move(
                   ParticleOf(call.position, call.velocity, <<>>,
                              call.slow_factor, call.mass, 0),
                   call.net_force, call.dt)]
    /\ UNCHANGED call

CallParticleLogicMove ==
    /\ call.fn = "ParticleLogic.move" /\ ~Returned(ret)
    /\ ret' = ParticleLogic_move(
                   ParticleLogic(call.velocity, <<>>, call.slow_factor,
                                 call.mass, 0),
                   call.position, call.net_force, call.dt)
    /\ UNCHANGED call

CallVectorDiv ==
    /\ call.fn = "Vector2D.__truediv__" /\ ~Returned(ret)
    /\ ret' = [value |-> VecDiv(call.v, call.scalar), self |-> call.v]
    /\ UNCHANGED call

CallVectorNormalize ==
    /\ call.fn = "Vector2D.normalize" /\ ~Returned(ret)
    /\ ret' = [value |-> normalize(call.v), self |-> call.v]
    /\ UNCHANGED call

\* The store an entity's logic is run in: the near charges and, last, the
\* entity.
LogicStore ==
    [StoreOf(NearCharges) EXCEPT
        !.ents = Append(@, Entity(<<[cls |-> "VisualPoint2D"]>>,
                                  call.logic_elements, TRUE, call.position))]

CallEntityLogic ==
    /\ call.fn = "Entity.logic" /\ ~Returned(ret)
    /\ ret' = Entity_logic(LogicStore, Len(NearCharges) + 1,
                           [dt |-> call.dt, other_position |-> call.other_position])
    /\ UNCHANGED call

\* The store a body is updated in: the charges of the call and, last, the
\* body, which has them as its external charges.
UpdateStore ==
    [StoreOf(call.charges) EXCEPT
        !.ents = Append(@,
            IF call.kind = "Electron"
            THEN ElectronEntity(call.position, call.velocity,
                                [i \in 1..Len(call.charges) |-> i], Num(1))
            ELSE IF call.kind = "Proton"
            THEN ProtonEntity(call.position, call.velocity,
                              [i \in 1..Len(call.charges) |-> i], Num(1))
            ELSE NeutronEntity(call.position, call.velocity,
                               [i \in 1..Len(call.charges) |-> i], Num(1)))]

UpdateKwargs == [dt |-> call.dt, screen |-> "screen"]

CallEntityUpdate ==
    /\ call.fn = "Entity.update" /\ ~Returned(ret)
    /\ ret' = Entity_update(UpdateStore, Len(call.charges) + 1, UpdateKwargs)
    /\ UNCHANGED call

\* A ParticleLogic is constructed and, when that raised nothing, takes a
\* step.
CallParticleLogicInit ==
    /\ call.fn = "ParticleLogic.__init__" /\ ~Returned(ret)
    /\ \E self \in {ParticleLogic(Vector2D(Num(1), 0), <<>>, call.slow_factor,
                                   call.mass, Num(ElementaryCharge))} :
           ret' = [self |-> self,
                   step |-> IF IsRaised(self) THEN self
                            ELSE ParticleLogic_move(self, Point2D(0, 0),
                                                    call.net_force, call.dt)]
    /\ UNCHANGED call

\* A ChargeLogic or a charge.Charge is constructed.
CallChargeInit ==
    /\ call.fn \in {"ChargeLogic.__init__", "Charge.__init__"} /\ ~Returned(ret)
    /\ ret' = [self |-> IF call.fn = "ChargeLogic.__init__"
                        THEN ChargeLogic(call.value, call.permittivity)
                        ELSE Charge(call.value, Point2D(0, 0), call.permittivity)]
    /\ UNCHANGED call

\* The first of two bodies is updated.
CallUpdateAmong ==
    /\ call.fn \in {"Particle.update among bodies",
                    "Entity.update among bodies"}
    /\ ~Returned(ret)
    /\ ret' = IF call.fn = "Particle.update among bodies"
              THEN Particle_update_among(Objects(call), Bodies(call), 1,
                                         call.kind, call.dt)
              ELSE Entity_update_among(call.charges, Objects(call),
                                       Bodies(call), 1, call.kind,
                                       [dt |-> call.dt, screen |-> "screen"])
    /\ UNCHANGED call

FnNext ==
    /\ \/ CallChargeField
       \/ CallChargeLogicField
       \/ CallParticleForce
       \/ CallParticleLogicForce
       \/ CallParticleMove
       \/ CallParticleLogicMove
       \/ CallVectorDiv
       \/ CallVectorNormalize
       \/ CallEntityLogic
       \/ CallEntityUpdate
       \/ CallParticleLogicInit
       \/ CallChargeInit
       \/ CallUpdateAmong
    /\ UNCHANGED <<wvars, evars>>

vars == <<call, ret, pc, window, heap, running, dt, idx, frame,
          pass_start, updates, out, gone, rebuilds, store, entities, steps>>

\* ======================================================== window program
\* --------------------------------------- simulation.py: SimulationWindow
\* SimulationWindow.__init__; static_layer and screen hold what was drawn on
\* them since they were last filled.
SimulationWindow(charges) ==
    [charges |-> charges, objects |-> <<>>, dynamic_objects |-> <<>>,
     static_layer |-> <<>>, static_layer_dirty |-> TRUE, screen |-> <<>>]

\* SimulationWindow.add_object
add_object(self, obj) ==
    [self EXCEPT !.objects = Append(@, obj), !.static_layer_dirty = TRUE]

\* add_dynamic_object marking the static layer for re-rendering as add_object
\* does.
add_dynamic_object_MarksDirty(self, obj) ==
    [self EXCEPT !.dynamic_objects = Append(@, obj),
                 !.static_layer_dirty = TRUE]

\* add_dynamic_object putting the object at the head of the list.
add_dynamic_object_Prepends(self, obj) ==
    [self EXCEPT !.dynamic_objects = <<obj>> \o @]

\* SimulationWindow.add_dynamic_object
add_dynamic_object(self, obj) ==
    [self EXCEPT !.dynamic_objects = Append(@, obj)]

\* clear_dynamic_objects emptying the list of static objects with the dynamic
\* ones.
clear_dynamic_objects_ClearsAll(self) ==
    [self EXCEPT !.dynamic_objects = <<>>, !.objects = <<>>]

\* SimulationWindow.clear_dynamic_objects
clear_dynamic_objects(self) ==
    [self EXCEPT !.dynamic_objects = <<>>]

\* run: the static layer of a frame, leaving the dirty flag set.
render_static_KeepsDirty(self) ==
    LET filled == [self EXCEPT !.screen = <<>>]
        static == IF filled.static_layer_dirty
                  THEN [filled EXCEPT !.static_layer = filled.objects]
                  ELSE filled
    IN  [self |-> [static EXCEPT
                      !.screen = Append(@, [layer |-> static.static_layer])],
         rebuilt |-> filled.static_layer_dirty]

\* run, "Static objects" and the blit: the screen is filled, the static
\* layer is cleared and every static object drawn on it when the layer is
\* dirty, and the layer is copied to the screen.
render_static(self) ==
    LET filled == [self EXCEPT !.screen = <<>>]
        static == IF filled.static_layer_dirty
                  THEN [filled EXCEPT !.static_layer = filled.objects,
                                      !.static_layer_dirty = FALSE]
                  ELSE filled
    IN  [self |-> [static EXCEPT
                      !.screen = Append(@, [layer |-> static.static_layer])],
         rebuilt |-> filled.static_layer_dirty]

\* One step of the loop over dynamic_objects removing from the list, while
\* the loop runs, the object whose update returned False.
update_pass_step_RemovesInLoop(self, objs, i, dt_) ==
    LET id == self.dynamic_objects[i]
    IN  The({IF IsRaised(u)
             THEN [self |-> self, heap |-> objs, idx |-> i, raised |-> u.raised]
             ELSE [self |-> IF u.ret
                            THEN [self EXCEPT !.screen = Append(@, [id |-> id,
                                                        point |-> u.self.point])]
                            ELSE [self EXCEPT !.dynamic_objects =
                                     SubSeq(@, 1, i - 1) \o SubSeq(@, i + 1, Len(@))],
                   heap |-> [objs EXCEPT ![id] = u.self],
                   idx |-> i + 1, ret |-> u.ret] :
             u \in {Particle_update(objs[id], dt_)}})

\* run, one step of the loop over dynamic_objects: the object at place i is
\* updated, and drawn on the screen when its update returned True.
update_pass_step(self, objs, i, dt_) ==
    LET id == self.dynamic_objects[i]
    IN  The({IF IsRaised(u)
             THEN [self |-> self, heap |-> objs, idx |-> i, raised |-> u.raised]
             ELSE [self |-> IF u.ret
                            THEN [self EXCEPT !.screen = Append(@, [id |-> id,
                                                        point |-> u.self.point])]
                            ELSE self,
                   heap |-> [objs EXCEPT ![id] = u.self],
                   idx |-> i + 1, ret |-> u.ret] :
             u \in {Particle_update(objs[id], dt_)}})

\* run, "Add action particles": the particles are added in list order.
RECURSIVE add_particles(_, _)
add_particles(self, ids) ==
    IF ids = <<>> THEN self
    ELSE add_particles(add_dynamic_object(self, Head(ids)), Tail(ids))

\* ----------------------------------------------------------- main.py
\* The charge -5.0e-6 of the charges on the walls, in model units.
WallCharge == 2

\* The walls are divided in WallSteps parts (32 in main.py) and the field is
\* drawn on a grid of GridSteps parts a side (40 in main.py).
WallSteps == 1

GridSteps == 1

\* The place i parts of n along a side of 800 pixels.
Along(i, n) == Fl(i * 800 * Scale, n * PixelsPerUnit)

\* main.py: the charges on the walls, in the order they are appended.
MainCharges ==
    LET side(i) ==
            Charge(-Num(WallCharge),
                   Point2D(IF i % 2 = 1 THEN Pixels(800) ELSE 0,
                           Along((i - 1) \div 2, WallSteps)),
                   VacuumPermittivity)
        top(i) ==
            Charge(-Num(WallCharge),
                   Point2D(Along((i + 1) \div 2, WallSteps),
                           IF i % 2 = 1 THEN Pixels(800) ELSE 0),
                   VacuumPermittivity)
    IN  [i \in 1..(2 * (WallSteps + 1)) |-> side(i)]
        \o [i \in 1..(2 * (WallSteps - 1)) |-> top(i)]

\* main.py: the objects added to the window, in order: the field vectors on
\* the grid, then the points of the charges.
MainObjects ==
    LET n == GridSteps + 1
        at(i) == Point2D(Along((i - 1) \div n, GridSteps),
                         Along((i - 1) % n, GridSteps))
        vector(i) ==
            [cls |-> "VisualVector2D", point |-> at(i),
             vector |-> Particle_sum_fields(Vector2D(0, 0), MainCharges, at(i))]
        point(i) ==
            [cls |-> "VisualPoint2D", point |-> MainCharges[i].position,
             label |-> IF MainCharges[i].value > 0 THEN "+" ELSE "-"]
    IN  [i \in 1..(n * n) |-> vector(i)]
        \o [i \in 1..Len(MainCharges) |-> point(i)]

\* ------------------------------------------------ the program's steps
\* Frames run, particles created and particles created by one key.
MaxFrames == 2

MaxParticles == 2

MaxBurst == 2

\* clock.tick(60) / 1000, in model units.
FrameTimes == {Num(1)}

\* pygame.mouse.get_pos(): the middle of the window and a place by its right
\* wall.
MousePositions == {Point2D(Pixels(400), Pixels(400)),
                   Point2D(Pixels(780), Pixels(400))}

\* Vector2D(random.randint(-1e7, 1e7), random.randint(-1e7, 1e7)), in model
\* units.
RandomVelocities == {Vector2D(Num(1), Num(1)), Vector2D(-Num(1), Num(1))}

\* The velocity 4e7 of the electron beam, in model units.
BeamSpeed == 4

\* The first places of the first ring of keys 4, 5 and 7, pixels from the
\* mouse: 3 * radius_increase * (cos(angle), sin(angle)) for i = 0, 1, 2.
RingPlaces == <<<<15, 0>>, <<11, 11>>, <<0, 15>>>>

\* The first places of the beam of key 6, pixels from the mouse:
\* (10 * w, 10 * (h - 1)) for w = 0 and h = 0, 1, 2.
BeamPlaces == <<<<0, -10>>, <<0, 0>>, <<0, 10>>>>

Offset(m, d) == Point2D(FAdd(m.x, Sgn(d[1]) * Pixels(Abs(d[1]))),
                        FAdd(m.y, Sgn(d[2]) * Pixels(Abs(d[2]))))

\* The particles a key creates are added to the heap and, in order, to the
\* dynamic objects.
Spawn(key, particles) ==
    LET ids == [i \in 1..Len(particles) |-> Len(heap) + i]
    IN  /\ pc = "events"
        /\ Len(heap) + Len(particles) <= MaxParticles
        /\ heap' = heap \o particles
        /\ window' = add_particles(window, ids)
        /\ call' = [fn |-> "add_dynamic_object", key |-> key, objs |-> ids]
        /\ ret' = "None"
        /\ UNCHANGED <<pc, running, dt, idx, frame, pass_start, updates, out,
                       gone, rebuilds>>

WorldInit ==
    /\ pc = "main"
    /\ window = SimulationWindow(MainCharges)
    /\ heap = <<>> /\ running = FALSE /\ dt = 0 /\ idx = 0 /\ frame = 0
    /\ pass_start = <<>> /\ updates = <<>> /\ out = {} /\ gone = {}
    /\ rebuilds = 0
    /\ call = [fn |-> "SimulationWindow"] /\ ret = "None"
    /\ EntityIdle

\* main.py: simulation_window.add_object(...)
AddObject ==
    /\ pc = "main"
    /\ Len(window.objects) < Len(MainObjects)
    /\ LET obj == MainObjects[Len(window.objects) + 1]
       IN  /\ window' = add_object(window, obj)
           /\ call' = [fn |-> "add_object", obj |-> obj]
    /\ ret' = "None"
    /\ rebuilds' = 0
    /\ UNCHANGED <<pc, heap, running, dt, idx, frame, pass_start, updates,
                   out, gone>>

\* main.py: simulation_window.run()
Run ==
    /\ pc = "main"
    /\ Len(window.objects) = Len(MainObjects)
    /\ pc' = "loop" /\ running' = TRUE
    /\ call' = [fn |-> "run"] /\ ret' = "None"
    /\ UNCHANGED <<window, heap, dt, idx, frame, pass_start, updates, out,
                   gone, rebuilds>>

\* while running: dt = clock.tick(60) / 1000
Tick ==
    /\ pc = "loop" /\ running /\ frame < MaxFrames
    /\ \E t \in FrameTimes : dt' = t
    /\ pc' = "events"
    /\ call' = [fn |-> "clock.tick"] /\ ret' = "None"
    /\ UNCHANGED <<window, heap, running, idx, frame, pass_start, updates,
                   out, gone, rebuilds>>

\* pygame.quit(); sys.exit()
Exit ==
    /\ pc = "loop" /\ ~running
    /\ pc' = "exit"
    /\ call' = [fn |-> "sys.exit"] /\ ret' = "None"
    /\ UNCHANGED <<window, heap, running, dt, idx, frame, pass_start, updates,
                   out, gone, rebuilds>>

\* event.type == pygame.QUIT
Quit ==
    /\ pc = "events"
    /\ running' = FALSE
    /\ call' = [fn |-> "QUIT"] /\ ret' = "None"
    /\ UNCHANGED <<pc, window, heap, dt, idx, frame, pass_start, updates, out,
                   gone, rebuilds>>

\* Keys 1, 2 and 3: an electron, a proton or a neutron at rest at the mouse.
KeyParticle ==
    \E m \in MousePositions :
        \/ Spawn("K_1", <<Electron(m, Vector2D(0, 0), window.charges)>>)
        \/ Spawn("K_2", <<Proton(m, Vector2D(0, 0), window.charges)>>)
        \/ Spawn("K_3", <<Neutron(m, Vector2D(0, 0), window.charges)>>)

\* Key 4: an electron at rest at the mouse and electrons at rest on rings
\* around it.
KeySpam ==
    \E m \in MousePositions :
        Spawn("K_4",
              [i \in 1..Min(MaxBurst, 1 + Len(RingPlaces)) |->
                  Electron(IF i = 1 THEN m ELSE Offset(m, RingPlaces[i - 1]),
                           Vector2D(0, 0), window.charges)])

\* Keys 5 and 7: an electron or a proton at rest at the mouse and, on rings
\* around it, electrons or protons of random velocities.
KeySpamRandom ==
    \E m \in MousePositions :
        \E v \in [2..Min(MaxBurst, 1 + Len(RingPlaces)) -> RandomVelocities] :
            \/ Spawn("K_5",
                     [i \in 1..Min(MaxBurst, 1 + Len(RingPlaces)) |->
                         IF i = 1
                         THEN Electron(m, Vector2D(0, 0), window.charges)
                         ELSE Electron(Offset(m, RingPlaces[i - 1]), v[i],
                                       window.charges)])
            \/ Spawn("K_7",
                     [i \in 1..Min(MaxBurst, 1 + Len(RingPlaces)) |->
                         IF i = 1
                         THEN Proton(m, Vector2D(0, 0), window.charges)
                         ELSE Proton(Offset(m, RingPlaces[i - 1]), v[i],
                                     window.charges)])

\* Keys 5 and 7 where random.randint refuses the float arguments -1e7 and 1e7
\* (TypeError from Python 3.12 on): run ends with the error.
KeySpamRandomRaises ==
    /\ pc = "events"
    /\ pc' = "raised"
    /\ call' = [fn |-> "random.randint"] /\ ret' = "TypeError"
    /\ UNCHANGED <<window, heap, running, dt, idx, frame, pass_start, updates,
                   out, gone, rebuilds>>

\* Key 6: a beam of electrons moving right.
KeyBeam ==
    \E m \in MousePositions :
        Spawn("K_6",
              [i \in 1..Min(MaxBurst, Len(BeamPlaces)) |->
                  Electron(Offset(m, BeamPlaces[i]),
                           Vector2D(Num(BeamSpeed), 0), window.charges)])

\* Key r: self.clear_dynamic_objects(); the particles, referenced from the
\* list only, are freed with it.
KeyReset ==
    /\ pc = "events"
    /\ window' = clear_dynamic_objects(window)
    /\ heap' = <<>> /\ gone' = {}
    /\ call' = [fn |-> "clear_dynamic_objects",
                before |-> window.dynamic_objects]
    /\ ret' = "None"
    /\ UNCHANGED <<pc, running, dt, idx, frame, pass_start, updates, out,
                   rebuilds>>

\* Another key: continue
KeyOther ==
    /\ pc = "events"
    /\ call' = [fn |-> "continue"] /\ ret' = "None"
    /\ UNCHANGED wvars

\* The events are exhausted: the screen is filled, the static layer rebuilt
\* when dirty and copied to the screen, and the loop over the dynamic objects
\* begins.
RenderStatic ==
    /\ pc = "events"
    /\ window' = render_static(window).self
    /\ rebuilds' = IF render_static(window).rebuilt
                   THEN rebuilds + 1 ELSE rebuilds
    /\ pc' = "update" /\ idx' = 1
    /\ pass_start' = window.dynamic_objects
    /\ updates' = <<>> /\ out' = {}
    /\ call' = [fn |-> "render_static", dirty |-> window.static_layer_dirty,
                rebuilt |-> render_static(window).rebuilt]
    /\ ret' = "None"
    /\ UNCHANGED <<heap, running, dt, frame, gone>>

\* for obj in self.dynamic_objects: one object is updated and drawn.
UpdateNext ==
    /\ pc = "update"
    /\ idx <= Len(window.dynamic_objects)
    /\ \E r \in {update_pass_step(window, heap, idx, dt)} :
           LET id == window.dynamic_objects[idx]
           IN  /\ window' = r.self /\ heap' = r.heap /\ idx' = r.idx
               /\ call' = [fn |-> "update", obj |-> id]
               /\ updates' = Append(updates, id)
               /\ IF IsRaised(r)
                  THEN pc' = "raised" /\ ret' = r.raised /\ out' = out
                  ELSE /\ pc' = pc /\ ret' = r.ret
                       /\ out' = IF r.ret THEN out ELSE out \cup {id}
    /\ UNCHANGED <<running, dt, frame, pass_start, gone, rebuilds>>

\* The loop over the dynamic objects is over: pygame.display.flip()
Flip ==
    /\ pc = "update"
    /\ idx > Len(window.dynamic_objects)
    /\ pc' = "loop"
    /\ frame' = frame + 1
    /\ gone' = gone \cup out
    /\ call' = [fn |-> "flip"] /\ ret' = "None"
    /\ UNCHANGED <<window, heap, running, dt, idx, pass_start, updates, out,
                   rebuilds>>

WorldNext ==
    /\ \/ AddObject
       \/ Run
       \/ Tick
       \/ Exit
       \/ Quit
       \/ KeyParticle
       \/ KeySpam
       \/ KeySpamRandom
       \/ KeySpamRandomRaises
       \/ KeyBeam
       \/ KeyReset
       \/ KeyOther
       \/ RenderStatic
       \/ UpdateNext
       \/ Flip
    /\ UNCHANGED evars

Spec == WorldInit /\ [][WorldNext]_vars


\* ------------------------------------------------------------ claims
FieldFns == {"Charge.calculate_field", "ChargeLogic.calculate_field"}

ForceFns == {"Particle.calculate_force", "ParticleLogic.calculate_force"}

MoveFns == {"Particle.move", "ParticleLogic.move"}

\* What a returned move call raised, if anything, and the velocity and
\* position it left.
MoveRaised == IF call.fn = "Particle.move" THEN IsRaised(ret.self) ELSE IsRaised(ret)

MoveVelocity == ret.self.velocity

MovePosition ==
    IF call.fn = "Particle.move" THEN ret.self.position ELSE ret.ret.position

\* C1: one integration step with mass > 0 and slow_factor > 0 computes
\* s = dt / slow_factor and a = force / mass, then velocity' = velocity + a*s
\* and position' = position + velocity'*s: the displacement uses the velocity
\* already updated in this step.
C1_SymplecticStep ==
    (Returned(ret) /\ call.fn \in MoveFns /\ call.mass > 0 /\ call.slow_factor > 0)
    => /\ ~MoveRaised
       /\ LET s == FDiv(call.dt, call.slow_factor)
              ax == FDiv(call.net_force.x, call.mass)
              ay == FDiv(call.net_force.y, call.mass)
              v == MoveVelocity
              p == MovePosition
          IN  /\ v.x = FAdd(call.velocity.x, FMul(ax, s))
              /\ v.y = FAdd(call.velocity.y, FMul(ay, s))
              /\ p.x = FAdd(call.position.x, FMul(v.x, s))
              /\ p.y = FAdd(call.position.y, FMul(v.y, s))
              /\ call.fn = "ParticleLogic.move" => ret.ret.velocity = v

\* C1 witness: a step of ParticleLogic.move in which the velocity changed and
\* the new position differs from the one the old velocity would have given.
C1_Witness ==
    /\ Returned(ret) /\ call.fn = "ParticleLogic.move" /\ ~MoveRaised
    /\ MoveVelocity # call.velocity
    /\ LET s == FDiv(call.dt, call.slow_factor)
       IN  MovePosition.x # FAdd(call.position.x, FMul(call.velocity.x, s))

\* The Coulomb constant of a permittivity: 1 / (4 pi permittivity).
CoulombK(permittivity) == FDiv(Num(1), FMul(FMul(Num(4), Pi), permittivity))

\* Of a returned field call: the difference p - c, the squared distance the
\* program computes from it, and the claimed field (k Q / |p - c|^2) times
\* the unit vector from c to p.
FieldDiff ==
    Vector2D(FSub(call.other_position.x, call.position.x),
             FSub(call.other_position.y, call.position.y))

FieldDistSq == FAdd(FMul(FieldDiff.x, FieldDiff.x), FMul(FieldDiff.y, FieldDiff.y))

ClaimedField ==
    LET m == FDiv(FMul(CoulombK(call.permittivity), call.value), FieldDistSq)
        len == FSqrt(FieldDistSq)
    IN  Vector2D(FMul(m, FDiv(FieldDiff.x, len)), FMul(m, FDiv(FieldDiff.y, len)))

\* A number with all its significant bits (not in the underflow range).
Normal(x) == Abs(x) >= 2 ^ (MantBits - 1)

\* The query point is (r, 0) with r > 0 and the charge is at the origin.
OnAxis ==
    /\ call.position = Point2D(0, 0)
    /\ call.other_position.y = 0 /\ call.other_position.x > 0

AxisField ==
    LET r == call.other_position.x
    IN  Vector2D(FDiv(FMul(CoulombK(call.permittivity), call.value), FMul(r, r)), 0)

C3_SelfFieldZero ==
    (Returned(ret) /\ call.fn \in FieldFns /\ call.other_position = call.position)
    => /\ ~IsRaised(ret.value)
       /\ ret.value = Vector2D(0, 0)

\* C3 witness: the field of a nonzero charge taken at its own position.
C3_Witness ==
    /\ Returned(ret) /\ call.fn = "Charge.calculate_field"
    /\ call.other_position = call.position /\ call.value # 0
    /\ ret.value = Vector2D(0, 0)

\* The force a returned force call computed.
ForceValue == IF call.fn = "Particle.calculate_force" THEN ret.value ELSE ret.ret

\* The force function fn computes from a list of charges for a body of
\* charge q at p.
ForceOf(fn, charges, p, q) ==
    IF fn = "Particle.calculate_force"
    THEN Particle_calculate_force(
             ParticleOf(p, Vector2D(0, 0), ChargesOf(charges), Num(1), Num(1), q))
    ELSE ParticleLogic_calculate_force(
             StoreOf(charges),
             ParticleLogic(Vector2D(0, 0), [i \in 1..Len(charges) |-> i],
                           Num(1), Num(1), q),
             p).ret

\* Each charge's individual field at p.
IndividualFields(charges, p) ==
    [i \in 1..Len(charges) |->
        Charge_calculate_field(
            Charge(charges[i].value, charges[i].position, VacuumPermittivity), p)]

\* The vectors of fs added to acc one after the other, in list order.
RECURSIVE SumInOrder(_, _)
SumInOrder(acc, fs) ==
    IF fs = <<>> THEN acc ELSE SumInOrder(VecAdd(acc, Head(fs)), Tail(fs))

\* The sum of the magnitudes of the numbers of ns.
RECURSIVE SumAbs(_)
SumAbs(ns) == IF ns = <<>> THEN 0 ELSE Abs(Head(ns)) + SumAbs(Tail(ns))

\* The list s rearranged by the permutation f of its indices.
Permuted(s, f) == [i \in 1..Len(s) |-> s[f[i]]]

\* The forces of a returned force call for every order of its charge list.
PermutedForces ==
    {ForceOf(call.fn, Permuted(call.charges, f), call.position, call.charge) :
        f \in Permutations(1..Len(call.charges))}

Tolerance(q, ns) ==
    LET m == SumAbs(ns)
    IN  Abs(q) * (Len(ns) - 1) * Ulp(2 * m) + Scale * Ulp(FMul(Abs(q), 2 * m))

FnSpec == FnInit /\ [][FnNext]_vars

\* ------------------------------------------ claims on vectors and steps
\* The magnitude Vector2D.normalize computes of the vector of a call.
CallMagnitude ==
    FSqrt(FAdd(FMul(call.v.x, call.v.x), FMul(call.v.y, call.v.y)))

\* C15: dividing a vector by a scalar raises ZeroDivisionError exactly when
\* the scalar is 0; for every other scalar it returns the component-wise
\* quotient; the vector divided is as it was.
C15_DivideByScalar ==
    (Returned(ret) /\ call.fn = "Vector2D.__truediv__")
    => /\ IsRaised(ret.value) <=> call.scalar = 0
       /\ call.scalar = 0 => ret.value = ZeroDivisionError
       /\ call.scalar # 0 =>
              ret.value = Vector2D(FDiv(call.v.x, call.scalar),
                                   FDiv(call.v.y, call.scalar))
       /\ ret.self = call.v

\* C15 witness: a nonzero vector was divided by a negative scalar and the
\* quotient, which differs from the vector, was returned.
C15_Witness ==
    /\ Returned(ret) /\ call.fn = "Vector2D.__truediv__"
    /\ call.scalar < 0 /\ call.v # Vector2D(0, 0)
    /\ ~IsRaised(ret.value) /\ ret.value # call.v

Symmetric ==
    /\ Len(call.charges) = 2
    /\ call.charges[1].value = call.charges[2].value
    /\ call.charges[1].position.x + call.charges[2].position.x
           = 2 * call.position.x
    /\ call.charges[1].position.y + call.charges[2].position.y
           = 2 * call.position.y

C19_AsStated ==
    (Returned(ret) /\ call.fn \in MoveFns /\ ~MoveRaised)
    => LET s == FDiv(call.dt, call.slow_factor)
       IN  /\ MovePosition.x = FAdd(call.position.x, FMul(call.velocity.x, s))
           /\ MovePosition.y = FAdd(call.position.y, FMul(call.velocity.y, s))

\* C19 (amended): the displacement added to the position is computed from
\* the velocity this step's velocity update has just assigned, the one the
\* body keeps after the step.
C19_DisplacementFromNewVelocity ==
    (Returned(ret) /\ call.fn \in MoveFns /\ ~MoveRaised)
    => LET s == FDiv(call.dt, call.slow_factor)
       IN  /\ MovePosition.x = FAdd(call.position.x, FMul(MoveVelocity.x, s))
           /\ MovePosition.y = FAdd(call.position.y, FMul(MoveVelocity.y, s))

\* C19 witness: a step of Particle.move under a force, after which the
\* position is not the one the velocity before the step would have given.
C19_Witness ==
    /\ Returned(ret) /\ call.fn = "Particle.move" /\ ~MoveRaised
    /\ call.net_force # Vector2D(0, 0)
    /\ LET s == FDiv(call.dt, call.slow_factor)
       IN  MovePosition # Point2D(FAdd(call.position.x, FMul(call.velocity.x, s)),
                                  FAdd(call.position.y, FMul(call.velocity.y, s)))

\* The ParticleLogic a move call is made on.
MoveLogic ==
    ParticleLogic(call.velocity, <<>>, call.slow_factor, call.mass, 0)

\* C20 as stated: ParticleLogic.move changes no stored state of the body.
C20_AsStated ==
    (Returned(ret) /\ call.fn = "ParticleLogic.move" /\ ~MoveRaised)
    => ret.self = MoveLogic

\* C20 (amended): ParticleLogic.move stores the updated velocity in the
\* logic element (self.velocity becomes the velocity it returns) and changes
\* nothing else that is stored; the new position is only returned.
C20_StoresVelocityOnly ==
    (Returned(ret) /\ call.fn = "ParticleLogic.move" /\ ~MoveRaised)
    => /\ ret.self = [MoveLogic EXCEPT !.velocity = ret.ret.velocity]
       /\ DOMAIN ret.self = DOMAIN MoveLogic
       /\ "position" \notin DOMAIN ret.self

\* C20 witness: a step of ParticleLogic.move that returned a velocity other
\* than the one stored before it, and a new position.
C20_Witness ==
    /\ Returned(ret) /\ call.fn = "ParticleLogic.move" /\ ~MoveRaised
    /\ ret.ret.velocity # call.velocity
    /\ ret.ret.position # call.position

\* ------------------------------- claims on Entity.logic and Entity.update
\* The entries of run, without its position, over those of data.
Merged(data, run) ==
    [k \in (DOMAIN data \cup DOMAIN run) \ {"position"} |->
        IF k \in DOMAIN run THEN run[k] ELSE data[k]]

\* The elements run one after the other from a position: each is run with
\* the position the elements before it left, a position it returns is the
\* position from then on, and its other entries go over the data gathered.
RECURSIVE LogicChain(_, _, _, _, _)
LogicChain(st, elements, position, data, kwargs) ==
    IF elements = <<>>
    THEN [position |-> position, data |-> data]
    ELSE The({IF IsRaised(r) THEN r
              ELSE LogicChain(r.store, Tail(elements),
                       IF "position" \in DOMAIN r.ret
                       THEN r.ret.position ELSE position,
                       Merged(data, r.ret), kwargs) :
              r \in {Logic_run(st, Head(elements),
                               [position |-> position] @@ kwargs)}})

LogicKwargs == [dt |-> call.dt, other_position |-> call.other_position]

LogicExpected ==
    LogicChain(StoreOf(NearCharges), call.logic_elements, call.position,
               <<>>, LogicKwargs)

\* C11: Entity.logic runs the logic elements in list order, each with the
\* position the elements before it left; a position an element returns is
\* the entity's position before the next element runs; the other entries
\* returned are merged into the result, a later element's entry replacing an
\* earlier one of the same key.
C11_LogicInListOrder ==
    (Returned(ret) /\ call.fn = "Entity.logic")
    => /\ ~IsRaised(ret)
       /\ ~IsRaised(LogicExpected)
       /\ ret.ret = LogicExpected.data
       /\ ret.store.ents[Len(NearCharges) + 1].position = LogicExpected.position
       /\ "position" \notin DOMAIN ret.ret

\* C11 witness: the logic of an entity with a ParticleLogic, a ChargeLogic
\* and another ParticleLogic was run: the result holds the field and the
\* last element's force arrow, which the first element alone gives
\* differently, and the entity has moved.
C11_Witness ==
    /\ Returned(ret) /\ call.fn = "Entity.logic" /\ ~IsRaised(ret)
    /\ Len(call.logic_elements) = 3
    /\ call.logic_elements[1].cls = "ParticleLogic"
    /\ call.logic_elements[2].cls = "ChargeLogic"
    /\ call.logic_elements[3].cls = "ParticleLogic"
    /\ "field" \in DOMAIN ret.ret
    /\ ret.ret.other_position
           # LogicChain(StoreOf(NearCharges), <<call.logic_elements[1]>>,
                        call.position, <<>>, LogicKwargs).data.other_position
    /\ ret.store.ents[Len(NearCharges) + 1].position # call.position

\* What the logic elements of an updated body return for the call.
UpdateLogicData ==
    Entity_logic(UpdateStore, Len(call.charges) + 1, UpdateKwargs).ret

\* The position of an updated body after the call.
UpdatedPosition == ret.store.ents[Len(call.charges) + 1].position

OutOfBound(position) ==
    Abs(position.x) > Num(EntityBound) \/ Abs(position.y) > Num(EntityBound)

\* C12: when the entity's position after its logic elements ran violates the
\* bound, Entity.update returns the destroy marker together with the data its
\* logic elements produced in that call.
C12_DestroyWithData ==
    (Returned(ret) /\ call.fn = "Entity.update" /\ ~IsRaised(ret)
        /\ OutOfBound(UpdatedPosition))
    => /\ "destroy" \in DOMAIN ret.ret
       /\ \A k \in DOMAIN UpdateLogicData :
              k \in DOMAIN ret.ret /\ ret.ret[k] = UpdateLogicData[k]

\* C13: Entity.update of a body built with mass > 0 and slow_factor > 0,
\* among charges built with permittivity > 0, returns a value and raises
\* nothing, wherever the body and the charges are.
C13_UpdateNeverRaises ==
    (Returned(ret) /\ call.fn = "Entity.update") => ~IsRaised(ret)

ConstructFns ==
    {"ParticleLogic.__init__", "ChargeLogic.__init__", "Charge.__init__"}

\* The arguments of a constructor call that the specification rejects.
InvalidParameters ==
    IF call.fn = "ParticleLogic.__init__"
    THEN call.mass <= 0 \/ call.slow_factor <= 0
    ELSE call.permittivity <= 0

\* C14: a charge with permittivity <= 0 and a body with mass <= 0 or
\* slow_factor <= 0 are rejected by the constructor with an invalid-parameter
\* error, and a step of a body that was constructed never divides by zero.
C14_RejectedAtConstruction ==
    (Returned(ret) /\ call.fn \in ConstructFns)
    => /\ InvalidParameters =>
              IsRaised(ret.self) /\ ret.self.raised = "InvalidParameter"
       /\ (call.fn = "ParticleLogic.__init__" /\ ~IsRaised(ret.self)) =>
              ret.step # ZeroDivisionError

\* --------------------------------- claims on the update of one entity
\* The identity of the body of an update call, and the body before and
\* after the call.
UpdateId == Len(call.charges) + 1

BodyBefore == UpdateStore.ents[UpdateId]

BodyAfter == ret.store.ents[UpdateId]

\* C21: the update of a body, which computes the force on it, leaves every
\* external charge as it was (position, value, permittivity and k), k being
\* the value computed at construction from the permittivity.
C21_SourcesUnchanged ==
    (Returned(ret) /\ call.fn = "Entity.update")
    => \A i \in 1..Len(call.charges) :
           /\ ret.store.ents[i] = UpdateStore.ents[i]
           /\ ret.store.ents[i].position = call.charges[i].position
           /\ ret.store.ents[i].logic_elements[1].value = call.charges[i].value
           /\ ret.store.ents[i].logic_elements[1].permittivity = VacuumPermittivity
           /\ ret.store.ents[i].logic_elements[1].k = CoulombK(VacuumPermittivity)

\* C21 witness: a body was updated under a force from two charges at
\* different places, each of which it asked for its field.
C21_Witness ==
    /\ Returned(ret) /\ call.fn = "Entity.update" /\ ~IsRaised(ret)
    /\ Len(call.charges) = 2
    /\ call.charges[1].position # call.charges[2].position
    /\ \A i \in 1..2 :
           \E n \in 1..Len(ret.store.log) : ret.store.log[n] = <<"update", i>>
    /\ BodyAfter.logic_elements[1].velocity # call.velocity

\* The draw calls of the visual elements of entity id in a log.
DrawCalls(log, id) ==
    LET draw(c) == c = <<"draw", id>>
    IN  SelectSeq(log, draw)

C24_DestroyBeyondBound ==
    (Returned(ret) /\ call.fn = "Entity.update" /\ ~IsRaised(ret))
    => /\ ("destroy" \in DOMAIN ret.ret) <=> OutOfBound(UpdatedPosition)
       /\ "destroy" \in DOMAIN ret.ret => ret.ret = [destroy |-> TRUE]
       /\ UpdatedPosition
              = Entity_logic(UpdateStore, UpdateId, UpdateKwargs)
                    .store.ents[UpdateId].position
       /\ (Abs(UpdatedPosition.x) = Num(EntityBound)
               /\ Abs(UpdatedPosition.y) <= Num(EntityBound))
              => "destroy" \notin DOMAIN ret.ret

\* C24 witness: an update moved a body from inside the bound to beyond it
\* and reported destroy.
C24_Witness ==
    /\ Returned(ret) /\ call.fn = "Entity.update" /\ ~IsRaised(ret)
    /\ ~OutOfBound(call.position) /\ OutOfBound(UpdatedPosition)
    /\ "destroy" \in DOMAIN ret.ret

\* C26: the update(other_position=p) of every external charge, wherever the
\* charge is, returns a field, so that the update of a body never fails on a
\* missing key.
C26_FieldOfEveryCharge ==
    (Returned(ret) /\ call.fn = "Entity.update")
    => /\ \A i \in 1..Len(call.charges) :
              "field" \in DOMAIN External_update(UpdateStore, i,
                                  [other_position |-> call.position]).ret
       /\ ~(IsRaised(ret) /\ ret.raised = "KeyError")

\* C28 as stated: the force on a body of charge 0 is the zero vector and a
\* move under a zero force keeps the velocity; every update of a Neutron,
\* whatever its external charges, raises nothing, keeps its velocity and
\* advances its position by velocity * dt / slow_factor.
C28_NeutronDrifts ==
    /\ (Returned(ret) /\ call.fn \in ForceFns /\ call.charge = 0)
       => ForceValue = Vector2D(0, 0)
    /\ (Returned(ret) /\ call.fn \in MoveFns /\ ~MoveRaised
           /\ call.net_force = Vector2D(0, 0))
       => MoveVelocity = call.velocity
    /\ (Returned(ret) /\ call.fn = "Entity.update" /\ call.kind = "Neutron")
       => LET s == FDiv(call.dt, Num(1))
          IN  /\ ~IsRaised(ret)
              /\ BodyAfter.logic_elements[1].velocity = call.velocity
              /\ BodyAfter.position
                     = Point2D(FAdd(call.position.x, FMul(call.velocity.x, s)),
                               FAdd(call.position.y, FMul(call.velocity.y, s)))

\* ------------------------------------------- claims on shared objects
AmongFns == {"Particle.update among bodies", "Entity.update among bodies"}

\* C27: the update of the first of two bodies leaves the second body holding
\* the objects it held, those objects holding the position and velocity they
\* held, and the list of external charges (and under objects.py the charge
\* entities) as they were, whichever objects the bodies share; the first
\* body's objects after an update that raised nothing are objects made by
\* the update.
C27_OthersUnchanged ==
    (Returned(ret) /\ call.fn \in AmongFns)
    => /\ ret.bodies[2] = Bodies(call)[2]
       /\ ret.mem[ret.bodies[2].position]
              = Objects(call)[Bodies(call)[2].position]
       /\ ret.mem[ret.bodies[2].velocity]
              = Objects(call)[Bodies(call)[2].velocity]
       /\ ret.bodies[1].external_charges = 1
       /\ ret.mem[1] = Objects(call)[1]
       /\ call.fn = "Entity.update among bodies"
              => \A i \in 1..Len(call.charges) :
                     ret.store.ents[i] = StoreOf(call.charges).ents[i]
       /\ ~IsRaised(ret)
              => /\ ret.bodies[1].position > Len(Objects(call))
                 /\ ret.bodies[1].velocity > Len(Objects(call))

\* C27 witness: two bodies made from one position object and one velocity
\* object; the update of the first gave it another position and another
\* velocity, and the second has those of the call.
C27_Witness ==
    /\ Returned(ret) /\ call.fn \in AmongFns /\ ~IsRaised(ret)
    /\ call.shared = {"position", "velocity"}
    /\ call.charges # <<>>
    /\ ret.mem[ret.bodies[1].position] # call.position
    /\ ret.mem[ret.bodies[1].velocity] # call.velocity
    /\ ret.mem[ret.bodies[2].position] = call.position
    /\ ret.mem[ret.bodies[2].velocity] = call.velocity

\* ----------------------------------------------- claims on the window
\* C5 as stated: a particle whose update returned False is out of the dynamic
\* objects when its frame ends, and no update of it is made in a later frame.
C5_RemovedAtEndOfFrame ==
    /\ pc = "loop" =>
           \A i \in DOMAIN window.dynamic_objects :
               window.dynamic_objects[i] \notin gone
    /\ pc = "update" => \A i \in DOMAIN updates : updates[i] \notin gone

\* C6: while the loop over the dynamic objects runs, the objects updated are
\* those before the loop's place in the list the pass began with, each once
\* and in order; when the pass is over they are the whole of that list,
\* whatever the updates returned.
C6_EachUpdatedOnce ==
    /\ pc = "update" => updates = SubSeq(pass_start, 1, idx - 1)
    /\ pc \in {"loop", "exit"} /\ frame > 0 => updates = pass_start

\* C6 witness: a pass over two particles or more is over, and the update of
\* the first of them returned False.
C6_Witness ==
    /\ pc = "loop" /\ frame > 0
    /\ Len(pass_start) >= 2 /\ pass_start[1] \in out
    /\ updates = pass_start

\* C8: add_object appends the object to the static objects and sets the dirty
\* flag; add_dynamic_object appends the objects, in order, to the dynamic
\* objects and changes neither the static objects nor the dirty flag.
C8_AddEffects ==
    [][/\ call'.fn = "add_object" =>
              /\ window'.objects = Append(window.objects, call'.obj)
              /\ window'.static_layer_dirty = TRUE
              /\ window'.dynamic_objects = window.dynamic_objects
       /\ call'.fn = "add_dynamic_object" =>
              /\ window'.dynamic_objects = window.dynamic_objects \o call'.objs
              /\ window'.objects = window.objects
              /\ window'.static_layer_dirty = window.static_layer_dirty]_vars

\* C8 witness: particles were added behind others in a frame after the first,
\* the static layer being clean and the static objects in place.
C8_Witness ==
    /\ call.fn = "add_dynamic_object"
    /\ Len(window.dynamic_objects) > Len(call.objs)
    /\ ~window.static_layer_dirty
    /\ window.objects = MainObjects

\* C9: a frame's render rebuilds the static layer exactly when the dirty flag
\* is set, the rebuilt layer holds every static object, and the flag is clear
\* after the render; only add_object sets the flag; the layer is rebuilt at
\* most once after the last add_object.
C9_StaticLayer ==
    [][/\ call'.fn = "render_static" =>
              /\ window.static_layer_dirty =>
                     /\ window'.static_layer = window.objects
                     /\ rebuilds' = rebuilds + 1
              /\ ~window.static_layer_dirty =>
                     /\ window'.static_layer = window.static_layer
                     /\ rebuilds' = rebuilds
              /\ ~window'.static_layer_dirty
       /\ ~window.static_layer_dirty /\ window'.static_layer_dirty =>
              call'.fn = "add_object"
       /\ rebuilds' <= 1]_vars

\* C9 witness: the render of a second frame left the static layer, rebuilt
\* once in the first frame, as it was.
C9_Witness ==
    /\ call.fn = "render_static" /\ ~call.dirty
    /\ frame >= 1 /\ rebuilds = 1
    /\ window.static_layer = MainObjects /\ ~window.static_layer_dirty

\* C10: clear_dynamic_objects leaves the dynamic objects empty at once, in
\* the event handling and before any update pass, and the static objects, the
\* charges and the dirty flag as they were.
C10_ClearEffects ==
    [][call'.fn = "clear_dynamic_objects" =>
           /\ window'.dynamic_objects = <<>>
           /\ pc' = pc
           /\ window'.objects = window.objects
           /\ window'.charges = window.charges
           /\ window'.static_layer_dirty = window.static_layer_dirty]_vars

\* C10 witness: key r emptied a list of particles during the event handling,
\* the static objects in place.
C10_Witness ==
    /\ call.fn = "clear_dynamic_objects" /\ call.before # <<>>
    /\ pc = "events"
    /\ window.dynamic_objects = <<>>
    /\ window.objects = MainObjects

\* C23: the dynamic objects are kept in the order they were added (a particle
\* made later has the greater number, and key r frees them all), and the loop
\* over them has visited, in that order, the objects before its place.
C23_VisitedInOrderAdded ==
    /\ \A i, j \in DOMAIN window.dynamic_objects :
           i < j => window.dynamic_objects[i] < window.dynamic_objects[j]
    /\ pc = "update" =>
           /\ Len(updates) = idx - 1
           /\ \A n \in DOMAIN updates : updates[n] = window.dynamic_objects[n]
    /\ pc = "loop" /\ frame > 0 => updates = window.dynamic_objects

\* C23 witness: a pass is over that updated, the earlier first, two particles
\* of two kinds, added by two keys.
C23_Witness ==
    /\ pc = "loop" /\ frame > 0
    /\ updates = <<1, 2>>
    /\ heap[1].label # heap[2].label

\* The position p with radius r is beyond the bounds of Particle.update.
BeyondWindow(p, r) ==
    \/ p.x < FSub(0, r)
    \/ p.x > FAdd(Pixels(UpdateBound), r)
    \/ p.y < FSub(0, r)
    \/ p.y > FAdd(Pixels(UpdateBound), r)

\* C25: an update that raises nothing returns False exactly when the position
\* after the move is beyond 0 - radius or 800 + radius in x or in y, and the
\* particle is drawn on the screen, at that position, exactly when its update
\* returned True.
C25_FalseBeyondWindow ==
    [][(call'.fn = "update" /\ pc' # "raised") =>
          LET after == heap'[call'.obj]
          IN  /\ ret' = ~BeyondWindow(after.position, after.radius)
              /\ window'.screen =
                     IF ret'
                     THEN Append(window.screen, [id |-> call'.obj,
                                                 point |-> after.position])
                     ELSE window.screen]_vars

\* C25 witness: the update of a particle that went past 800 + radius on the
\* right returned False and the screen holds the static layer only.
C25_Witness ==
    /\ call.fn = "update" /\ ret = FALSE
    /\ heap[call.obj].position.x
           > FAdd(Pixels(UpdateBound), heap[call.obj].radius)
    /\ heap[call.obj].position.x <= Pixels(10000)
    /\ Len(window.screen) = 1

\* ======================================================= entity pipeline
\* The entities of the world and the steps it takes.
MaxEntities == 3

MaxSteps == 2

StepTimes == {Num(1)}

\* premade_charges[0]: two opposite charges at (200, 400) and (600, 400).
PremadeCharges ==
    {ChargeEntity(Point2D(Pixels(200), Pixels(400)), -Num(8)),
     ChargeEntity(Point2D(Pixels(600), Pixels(400)), Num(8))}

\* A field sample marker.
FieldMarkers ==
    {FieldEntity(Point2D(Pixels(400), Pixels(400)), Vector2D(Num(1), 0))}

\* Where a body starts and how fast: in the middle of the window, and four
\* units inside the bound moving out.
BodyStarts ==
    {[position |-> Point2D(Pixels(400), Pixels(300)),
      velocity |-> Vector2D(0, Num(1))],
     [position |-> Point2D(Num(EntityBound) - Num(4), Pixels(400)),
      velocity |-> Vector2D(Num(8), 0)]}

BodyKinds == {"Electron", "Proton"}

\* The ids of the world's entities that are static, or dynamic, in
\* insertion order.
StaticIds(st, es) ==
    LET static(id) == ~st.ents[id].dynamic
    IN  SelectSeq(es, static)

DynamicIds(st, es) ==
    LET dynamic(id) == st.ents[id].dynamic
    IN  SelectSeq(es, dynamic)

\* The charges handed to a new body: the objects.Charge entities of the
\* world.
ChargeIds(st, es) ==
    LET charge(id) == /\ ~st.ents[id].dynamic
                      /\ st.ents[id].logic_elements # <<>>
    IN  SelectSeq(es, charge)

\* addObject(entity): the entity is created and appended to the collection.
World_addObject(st, es, entity) ==
    [store |-> [st EXCEPT !.ents = Append(@, entity)],
     ret |-> Append(es, Len(st.ents) + 1)]

\* step(dt), the pass: every dynamic entity is updated in insertion order,
\* those whose update reports destroy are collected.
RECURSIVE World_step_pass(_, _, _, _)
World_step_pass(st, ids, kwargs, destroyed) ==
    IF ids = <<>>
    THEN [store |-> st, ret |-> destroyed]
    ELSE The({IF IsRaised(u) THEN u
              ELSE World_step_pass(u.store, Tail(ids), kwargs,
                       IF "destroy" \in DOMAIN u.ret
                       THEN destroyed \cup {Head(ids)} ELSE destroyed) :
              u \in {Entity_update(st, Head(ids), kwargs)}})

\* step(dt): the pass, then the removal of the entities collected.
World_step(st, es, dt_) ==
    LET kept(p) == LET keep(id) == id \notin p.ret
                   IN  SelectSeq(es, keep)
    IN  The({IF IsRaised(p) THEN p
             ELSE [store |-> p.store, ret |-> kept(p)] :
             p \in {World_step_pass([st EXCEPT !.log = <<>>],
                                    DynamicIds(st, es),
                                    [dt |-> dt_, screen |-> "screen"], {})}})

\* clearDynamic(): the static entities stay.
World_clearDynamic(st, es) == StaticIds(st, es)

EntityInit ==
    /\ store = [ents |-> <<>>, log |-> <<>>] /\ entities = <<>> /\ steps = 0
    /\ call = [fn |-> "World"] /\ ret = "None"
    /\ WorldIdle

Stepping == "raised" \notin DOMAIN call /\ Len(store.ents) < MaxEntities

\* A Charge or a Field is added.
AddStatic ==
    /\ Stepping
    /\ \E entity \in PremadeCharges \cup FieldMarkers :
           \E r \in {World_addObject(store, entities, entity)} :
               /\ store' = r.store /\ entities' = r.ret
               /\ call' = [fn |-> "addObject", id |-> Len(store.ents) + 1]
    /\ ret' = "None"
    /\ UNCHANGED steps

\* An Electron or a Proton is added, with the charges of the world as its
\* external charges.
AddBody ==
    /\ Stepping
    /\ \E kind \in BodyKinds, start \in BodyStarts :
           \E r \in {World_addObject(store, entities,
                        IF kind = "Electron"
                        THEN ElectronEntity(start.position, start.velocity,
                                            ChargeIds(store, entities),
                                            Num(ParticleSlowFactor))
                        ELSE ProtonEntity(start.position, start.velocity,
                                          ChargeIds(store, entities),
                                          Num(ParticleSlowFactor)))} :
               /\ store' = r.store /\ entities' = r.ret
               /\ call' = [fn |-> "addObject", id |-> Len(store.ents) + 1]
    /\ ret' = "None"
    /\ UNCHANGED steps

\* One step of the world.
Step ==
    /\ "raised" \notin DOMAIN call /\ steps < MaxSteps
    /\ \E t \in StepTimes :
           \E r \in {World_step(store, entities, t)} :
               /\ store' = r.store
               /\ entities' = IF IsRaised(r) THEN entities ELSE r.ret
               /\ call' = IF IsRaised(r)
                          THEN [fn |-> "step", raised |-> r.raised]
                          ELSE [fn |-> "step"]
    /\ steps' = steps + 1
    /\ ret' = "None"

ClearDynamic ==
    /\ "raised" \notin DOMAIN call
    /\ DynamicIds(store, entities) # <<>>
    /\ entities' = World_clearDynamic(store, entities)
    /\ call' = [fn |-> "clearDynamic"] /\ ret' = "None"
    /\ UNCHANGED <<store, steps>>

EntityNext ==
    /\ \/ AddStatic
       \/ AddBody
       \/ Step
       \/ ClearDynamic
    /\ UNCHANGED wvars

EntitySpec == EntityInit /\ [][EntityNext]_vars

\* ------------------------------------------ claims on the entity pipeline
\* The update calls of a log.
UpdateCalls(log) ==
    LET update(c) == c[1] = "update"
    IN  SelectSeq(log, update)

\* The update calls of a step over the dynamic entities ids: each is updated
\* by the pass, and its calculate_force updates each of its external charges.
RECURSIVE ExpectedUpdates(_, _)
ExpectedUpdates(st, ids) ==
    IF ids = <<>> THEN <<>>
    ELSE LET charges == st.ents[Head(ids)].logic_elements[1].external_charges
         IN  <<<<"update", Head(ids)>>>>
             \o [i \in 1..Len(charges) |-> <<"update", charges[i]>>]
             \o ExpectedUpdates(st, Tail(ids))

Called(log, id) == \E i \in 1..Len(log) : log[i] = <<"update", id>>

StaticOf(st, es) == {id \in 1..Len(st.ents) : \E i \in 1..Len(es) : es[i] = id /\ ~st.ents[id].dynamic}

DynamicOf(st, es) ==
    {id \in 1..Len(st.ents) :
        \E i \in 1..Len(es) : es[i] = id /\ st.ents[id].dynamic}

====
